---------------------------- MODULE Spec2Model ----------------------------
(***************************************************************************)
(* Model of datetime-helper (src/src/main.rs): a command line tool that    *)
(* resolves a textual timestamp (ISO 8601 / RFC 3339, epoch seconds or     *)
(* epoch milliseconds) into a UTC instant and prints it in three           *)
(* representations.                                                        *)
(*                                                                         *)
(* Strings are TLA+ strings (sequences of characters).  64-bit integers    *)
(* are kept at their real magnitude: an i64 is a record                    *)
(* [neg |-> BOOLEAN, mag |-> sequence of decimal digits, most significant  *)
(* first, no leading zero], zero being [neg |-> FALSE, mag |-> <<>>].      *)
(***************************************************************************)
EXTENDS Integers, Sequences, FiniteSets, TLC

VARIABLES
    mode,       \* "arg": the input is the command line argument; "stdin": its lines
    pc,         \* "next": main asks the iterator for an item; "body": loop body; "done"
    line,       \* the item the iterator yielded last
    result,     \* what get_datetime returned for it (NoResult before the call)
    nread,      \* number of items the iterator has yielded
    skipped,    \* number of failed reads of standard input
    exhausted,  \* the iterator has returned None
    log,        \* one entry per report: [n |-> item number, chan |-> "stdout" or "stderr"]
    last        \* what the loop body wrote for it (<<>> before the report)

vars == <<mode, pc, line, result, nread, skipped, exhausted, log, last>>

\* bounds of the model
MaxLines == 2

MaxSkipped == 1

MaxPad == 1

-----------------------------------------------------------------------------
(* Characters and decimal digits                                           *)

CharAt(s, i) == SubSeq(s, i, i)

DigitValue ==
    "0" :> 0 @@ "1" :> 1 @@ "2" :> 2 @@ "3" :> 3 @@ "4" :> 4 @@
    "5" :> 5 @@ "6" :> 6 @@ "7" :> 7 @@ "8" :> 8 @@ "9" :> 9

IsDigit(c) == c \in DOMAIN DigitValue

DigitOf(c) == DigitValue[c]

DigitChar(d) == CharAt("0123456789", d + 1)

-----------------------------------------------------------------------------
(* 64-bit integers as sign and decimal magnitude                           *)

RECURSIVE StripZeros(_)
StripZeros(m) == IF m # <<>> /\ Head(m) = 0 THEN StripZeros(Tail(m)) ELSE m

MkBig(neg, m) ==
    LET c == StripZeros(m) IN [neg |-> neg /\ c # <<>>, mag |-> c]

RECURSIVE MagOfNat(_)
MagOfNat(n) == IF n = 0 THEN <<>> ELSE Append(MagOfNat(n \div 10), n % 10)

BigOfInt(n) == IF n < 0 THEN MkBig(TRUE, MagOfNat(-n)) ELSE MkBig(FALSE, MagOfNat(n))

RECURSIVE MagLexLE(_, _)
MagLexLE(a, b) ==
    IF a = <<>> THEN TRUE
    ELSE IF Head(a) # Head(b) THEN Head(a) < Head(b)
    ELSE MagLexLE(Tail(a), Tail(b))

MagLE(a, b) == Len(a) < Len(b) \/ (Len(a) = Len(b) /\ MagLexLE(a, b))

\* magnitude * k + c, for small k and c: schoolbook, least significant digit first
RECURSIVE MagMulAdd(_, _, _)
MagMulAdd(m, k, c) ==
    IF m = <<>> THEN MagOfNat(c)
    ELSE LET t == m[Len(m)] * k + c
         IN  Append(MagMulAdd(SubSeq(m, 1, Len(m) - 1), k, t \div 10), t % 10)

\* long division of a magnitude by a small divisor: [q |-> digits, r |-> remainder]
RECURSIVE MagDivMod(_, _, _, _)
MagDivMod(m, k, q, r) ==
    IF m = <<>> THEN [q |-> q, r |-> r]
    ELSE LET t == r * 10 + Head(m)
         IN  MagDivMod(Tail(m), k, Append(q, t \div k), t % k)

\* floored division and non-negative remainder of an i64 by a small k > 0
BigDivModFloor(b, k) ==
    LET d == MagDivMod(b.mag, k, <<>>, 0)
    IN  IF ~b.neg THEN [q |-> MkBig(FALSE, d.q), r |-> d.r]
        ELSE IF d.r = 0 THEN [q |-> MkBig(TRUE, d.q), r |-> 0]
        ELSE [q |-> MkBig(TRUE, MagMulAdd(StripZeros(d.q), 1, 1)), r |-> k - d.r]

\* magnitude - c for a small c >= 0 not above the magnitude
RECURSIVE MagSubSmall(_, _)
MagSubSmall(m, c) ==
    IF c = 0 THEN m
    ELSE LET t == m[Len(m)] - c
             borrow == IF t >= 0 THEN 0 ELSE (9 - t) \div 10
         IN  Append(MagSubSmall(SubSeq(m, 1, Len(m) - 1), borrow), t + 10 * borrow)

RECURSIVE MagToNat(_)
MagToNat(m) == IF m = <<>> THEN 0 ELSE MagToNat(SubSeq(m, 1, Len(m) - 1)) * 10 + m[Len(m)]

\* the value of an i64 of at most nine digits as a TLA+ integer
BigToInt(b) == IF b.neg THEN -MagToNat(b.mag) ELSE MagToNat(b.mag)

\* b * k for an i64 b and a small k > 0 (no i64 overflow arises for the
\* instants chrono can represent)
BigMul(b, k) == MkBig(b.neg, MagMulAdd(b.mag, k, 0))

\* b + c for an i64 b and a small c >= 0
BigAddSmall(b, c) ==
    IF ~b.neg THEN MkBig(FALSE, MagMulAdd(b.mag, 1, c))
    ELSE IF Len(b.mag) <= 9 THEN BigOfInt(c - MagToNat(b.mag))
    ELSE MkBig(TRUE, MagSubSmall(b.mag, c))

-----------------------------------------------------------------------------
(* str::parse::<i64> (core::num, used at main.rs line 84)                  *)

I64MaxMag == <<9,2,2,3,3,7,2,0,3,6,8,5,4,7,7,5,8,0,7>>

I64MinMag == <<9,2,2,3,3,7,2,0,3,6,8,5,4,7,7,5,8,0,8>>

NumberFormatError(detail) == [kind |-> "NumberFormatError", detail |-> detail]

\* digit by digit, with the checked multiply-and-add of from_str_radix
RECURSIVE ParseDigits(_, _, _, _)
ParseDigits(s, i, neg, acc) ==
    IF i > Len(s) THEN [ok |-> TRUE, val |-> MkBig(neg, acc)]
    ELSE IF ~IsDigit(CharAt(s, i))
         THEN [ok |-> FALSE, err |-> NumberFormatError("InvalidDigit")]
    ELSE LET acc2 == StripZeros(Append(acc, DigitOf(CharAt(s, i))))
         IN  IF ~MagLE(acc2, IF neg THEN I64MinMag ELSE I64MaxMag)
             THEN [ok |-> FALSE,
                   err |-> NumberFormatError(IF neg THEN "NegOverflow" ELSE "PosOverflow")]
             ELSE ParseDigits(s, i + 1, neg, acc2)

ParseI64(s) ==
    IF s = "" THEN [ok |-> FALSE, err |-> NumberFormatError("Empty")]
    ELSE IF s \in {"+", "-"} THEN [ok |-> FALSE, err |-> NumberFormatError("InvalidDigit")]
    ELSE IF CharAt(s, 1) = "+" THEN ParseDigits(s, 2, FALSE, <<>>)
    ELSE IF CharAt(s, 1) = "-" THEN ParseDigits(s, 2, TRUE, <<>>)
    ELSE ParseDigits(s, 1, FALSE, <<>>)
-----------------------------------------------------------------------------
(* chrono: the proleptic Gregorian calendar and DateTime<Utc>.             *)
(* A DateTime<Utc> is [days, secs, nanos]: the day number relative to      *)
(* 1970-01-01, the second of the day (0..86399) and the nanoseconds, which *)
(* are 1000000000 or more inside a leap second (chrono's NaiveTime).       *)

IsLeapYear(y) == y % 4 = 0 /\ (y % 100 # 0 \/ y % 400 = 0)

DaysInMonth(y, m) ==
    IF m = 2 THEN (IF IsLeapYear(y) THEN 29 ELSE 28)
    ELSE IF m \in {4, 6, 9, 11} THEN 30 ELSE 31

\* day number of a calendar date (NaiveDate::from_ymd_opt, then days since 1970-01-01)
DaysFromCivil(y, m, d) ==
    LET yy  == IF m <= 2 THEN y - 1 ELSE y
        era == yy \div 400
        yoe == yy - era * 400
        mp  == IF m > 2 THEN m - 3 ELSE m + 9
        doy == (153 * mp + 2) \div 5 + d - 1
        doe == yoe * 365 + yoe \div 4 - yoe \div 100 + doy
    IN  era * 146097 + doe - 719468

\* calendar date of a day number (NaiveDate::from_num_days_from_ce_opt)
CivilFromDays(z) ==
    LET zz  == z + 719468
        era == zz \div 146097
        doe == zz - era * 146097
        yoe == (doe - doe \div 1460 + doe \div 36524 - doe \div 146096) \div 365
        doy == doe - (365 * yoe + yoe \div 4 - yoe \div 100)
        mp  == (5 * doy + 2) \div 153
        d   == doy - (153 * mp + 2) \div 5 + 1
        m   == IF mp < 10 THEN mp + 3 ELSE mp - 9
    IN  [year |-> yoe + era * 400 + (IF m <= 2 THEN 1 ELSE 0), month |-> m, day |-> d]

\* chrono::naive::MIN_YEAR and MAX_YEAR (i32::MIN >> 13, i32::MAX >> 13)
MinYear == -262144

MaxYear == 262143

LocalNone == [kind |-> "None"]

Single(dt) == [kind |-> "Single", dt |-> dt]

\* Utc.timestamp_opt(secs, nsecs): NaiveDateTime::from_timestamp_opt splits the
\* seconds into days and second of day; the day count must fit an i32 and
\* name a date chrono can represent.  A day count of ten digits or more is
\* either beyond i32 or far beyond MaxYear.
timestamp_opt(secs, nsecs) ==
    LET dm == BigDivModFloor(secs, 86400)
    IN  IF Len(dm.q.mag) > 9 THEN LocalNone
        ELSE LET days == BigToInt(dm.q)
                 y    == CivilFromDays(days).year
             IN  IF y < MinYear \/ y > MaxYear THEN LocalNone
                 ELSE Single([days |-> days, secs |-> dm.r, nanos |-> nsecs])

\* Utc.timestamp_millis_opt(millis): floored split into seconds and milliseconds
timestamp_millis_opt(millis) ==
    LET dm == BigDivModFloor(millis, 1000)
    IN  timestamp_opt(dm.q, dm.r * 1000000)

\* Datelike::year
year(dt) == CivilFromDays(dt.days).year

\* DateTime::timestamp: whole seconds since the epoch, the leap second excluded
timestamp(dt) == BigAddSmall(BigMul(BigOfInt(dt.days), 86400), dt.secs)

\* DateTime::timestamp_subsec_millis: exceeds 999 inside a leap second
timestamp_subsec_millis(dt) == dt.nanos \div 1000000

\* DateTime::timestamp_millis
timestamp_millis(dt) == BigAddSmall(BigMul(timestamp(dt), 1000), timestamp_subsec_millis(dt))
-----------------------------------------------------------------------------
(* chrono: DateTime::parse_from_rfc3339                                    *)

DateFormatError(detail) == [kind |-> "DateFormatError", detail |-> detail]

RECURSIVE Pow10(_)
Pow10(n) == IF n = 0 THEN 1 ELSE 10 * Pow10(n - 1)

Min(a, b) == IF a <= b THEN a ELSE b

\* scan::number(s, n, n) at position i: "" when n digits stand there
NumErr(s, i, n) ==
    IF Len(s) - i + 1 < n THEN "TooShort"
    ELSE IF \E j \in i..(i + n - 1) : ~IsDigit(CharAt(s, j)) THEN "Invalid"
    ELSE ""

RECURSIVE NumAt(_, _, _)
NumAt(s, i, n) ==
    IF n = 0 THEN 0 ELSE NumAt(s, i, n - 1) * 10 + DigitOf(CharAt(s, i + n - 1))

\* scan::char at position i, for any of the characters cs
CharErr(s, i, cs) ==
    IF i > Len(s) THEN "TooShort"
    ELSE IF CharAt(s, i) \notin cs THEN "Invalid"
    ELSE ""

FirstErr(errs) ==
    IF \A i \in DOMAIN errs : errs[i] = "" THEN ""
    ELSE errs[CHOOSE i \in DOMAIN errs :
                /\ errs[i] # ""
                /\ \A j \in DOMAIN errs : j < i => errs[j] = ""]

\* number of consecutive digits from position i
RECURSIVE DigitRun(_, _)
DigitRun(s, i) ==
    IF i <= Len(s) /\ IsDigit(CharAt(s, i)) THEN 1 + DigitRun(s, i + 1) ELSE 0

\* scan::timezone_offset_zulu with a mandatory colon, at position p:
\* [err, secs (offset east of UTC in seconds), next (position after it)]
TimezoneOffset(s, p) ==
    IF p > Len(s) THEN [err |-> "TooShort", secs |-> 0, next |-> p]
    ELSE IF CharAt(s, p) \in {"Z", "z"} THEN [err |-> "", secs |-> 0, next |-> p + 1]
    ELSE IF CharAt(s, p) \notin {"+", "-"} THEN [err |-> "Invalid", secs |-> 0, next |-> p]
    ELSE LET e == FirstErr(<<NumErr(s, p + 1, 2), CharErr(s, p + 3, {":"}),
                             NumErr(s, p + 4, 2)>>)
         IN  IF e # "" THEN [err |-> e, secs |-> 0, next |-> p]
             ELSE IF NumAt(s, p + 4, 2) > 59
                  THEN [err |-> "OutOfRange", secs |-> 0, next |-> p]
             ELSE LET v == (NumAt(s, p + 1, 2) * 60 + NumAt(s, p + 4, 2)) * 60
                  IN  [err  |-> IF v >= 86400 THEN "OutOfRange" ELSE "",
                       secs |-> IF CharAt(s, p) = "-" THEN -v ELSE v,
                       next |-> p + 6]

\* YYYY-MM-DDTHH:MM:SS[.fraction](Z|+HH:MM|-HH:MM), converted to UTC.
\* A second of 60 is a leap second: second 59 with 1000000000 extra
\* nanoseconds, which the conversion to UTC keeps.
parse_from_rfc3339(s) ==
    LET e1 == FirstErr(<<NumErr(s, 1, 4), CharErr(s, 5, {"-"}), NumErr(s, 6, 2),
                         CharErr(s, 8, {"-"}), NumErr(s, 9, 2), CharErr(s, 11, {"T", "t"}),
                         NumErr(s, 12, 2), CharErr(s, 14, {":"}), NumErr(s, 15, 2),
                         CharErr(s, 17, {":"}), NumErr(s, 18, 2)>>)
    IN  IF e1 # "" THEN [ok |-> FALSE, err |-> e1]
        ELSE
        LET hasFrac == Len(s) >= 20 /\ CharAt(s, 20) = "."
            run     == IF hasFrac THEN DigitRun(s, 21) ELSE 0
            used    == Min(run, 9)
            frac    == NumAt(s, 21, used) * Pow10(9 - used)
            tz      == TimezoneOffset(s, IF hasFrac THEN 21 + run ELSE 20)
            y  == NumAt(s, 1, 4)
            mo == NumAt(s, 6, 2)
            d  == NumAt(s, 9, 2)
            h  == NumAt(s, 12, 2)
            mi == NumAt(s, 15, 2)
            se == NumAt(s, 18, 2)
        IN  IF hasFrac /\ run = 0
            THEN [ok |-> FALSE, err |-> IF Len(s) < 21 THEN "TooShort" ELSE "Invalid"]
            ELSE IF tz.err # "" THEN [ok |-> FALSE, err |-> tz.err]
            ELSE IF tz.next <= Len(s) THEN [ok |-> FALSE, err |-> "TooLong"]
            ELSE IF \/ mo < 1 \/ mo > 12 \/ d < 1 \/ d > DaysInMonth(y, mo)
                    \/ h > 23 \/ mi > 59 \/ se > 60
                 THEN [ok |-> FALSE, err |-> "OutOfRange"]
            ELSE LET local == h * 3600 + mi * 60 + Min(se, 59) - tz.secs
                 IN  [ok |-> TRUE,
                      dt |-> [days  |-> DaysFromCivil(y, mo, d) + local \div 86400,
                              secs  |-> local % 86400,
                              nanos |-> frac + (IF se = 60 THEN 1000000000 ELSE 0)]]

-----------------------------------------------------------------------------
(* chrono: DateTime::to_rfc3339_opts(SecondsFormat::Millis, true)          *)

RECURSIVE NatStr(_)
NatStr(n) == IF n < 10 THEN DigitChar(n) ELSE NatStr(n \div 10) \o DigitChar(n % 10)

RECURSIVE PadZero(_, _)
PadZero(str, w) == IF Len(str) >= w THEN str ELSE PadZero("0" \o str, w)

\* years outside 0..9999 carry an explicit sign
YearStr(y) ==
    IF y >= 0 /\ y <= 9999 THEN PadZero(NatStr(y), 4)
    ELSE IF y < 0 THEN "-" \o PadZero(NatStr(-y), 4)
    ELSE "+" \o PadZero(NatStr(y), 4)

to_rfc3339_millis_z(dt) ==
    LET c == CivilFromDays(dt.days)
    IN  YearStr(c.year) \o "-" \o PadZero(NatStr(c.month), 2) \o "-"
        \o PadZero(NatStr(c.day), 2) \o "T"
        \o PadZero(NatStr(dt.secs \div 3600), 2) \o ":"
        \o PadZero(NatStr((dt.secs \div 60) % 60), 2) \o ":"
        \o PadZero(NatStr((dt.secs % 60) + (dt.nanos \div 1000000000)), 2) \o "."
        \o PadZero(NatStr((dt.nanos % 1000000000) \div 1000000), 3) \o "Z"

-----------------------------------------------------------------------------
(* The program: main.rs                                                    *)

WhiteSpace == {" ", "\t", "\n", "\r"}

RECURSIVE trim_start(_)
trim_start(s) ==
    IF s # "" /\ CharAt(s, 1) \in WhiteSpace THEN trim_start(SubSeq(s, 2, Len(s))) ELSE s

RECURSIVE trim_end(_)
trim_end(s) ==
    IF s # "" /\ CharAt(s, Len(s)) \in WhiteSpace
    THEN trim_end(SubSeq(s, 1, Len(s) - 1)) ELSE s

\* str::trim
trim(s) == trim_end(trim_start(s))

Ok(dt) == [ok |-> TRUE, dt |-> dt]

Err(e) == [ok |-> FALSE, err |-> e]

InvalidEpochTime(n) == [kind |-> "InvalidEpochTime", value |-> n]

MultipleErrors(e1, e2) == [kind |-> "MultipleErrors", first |-> e1, second |-> e2]

\* the year below which a number is taken as epoch seconds
SecondsYearLimit == 3000

\* mutant: the numeric reading tried as milliseconds first
epoch_to_datetime_millis_first(input) ==
    IF ~ParseI64(input).ok THEN Err(ParseI64(input).err)
    ELSE IF timestamp_millis_opt(ParseI64(input).val).kind = "Single"
         THEN Ok(timestamp_millis_opt(ParseI64(input).val).dt)
    ELSE Err(InvalidEpochTime(ParseI64(input).val))

\* mutant: the year limit off by one (year <= 3000 taken as seconds)
epoch_to_datetime_year_inclusive(input) ==
    IF ~ParseI64(input).ok THEN Err(ParseI64(input).err)
    ELSE IF /\ timestamp_opt(ParseI64(input).val, 0).kind = "Single"
            /\ year(timestamp_opt(ParseI64(input).val, 0).dt) <= SecondsYearLimit
         THEN Ok(timestamp_opt(ParseI64(input).val, 0).dt)
    ELSE IF timestamp_millis_opt(ParseI64(input).val).kind = "Single"
         THEN Ok(timestamp_millis_opt(ParseI64(input).val).dt)
    ELSE Err(InvalidEpochTime(ParseI64(input).val))

\* mutant: no fall back to milliseconds when the seconds reading is refused
epoch_to_datetime_no_fallback(input) ==
    IF ~ParseI64(input).ok THEN Err(ParseI64(input).err)
    ELSE IF /\ timestamp_opt(ParseI64(input).val, 0).kind = "Single"
            /\ year(timestamp_opt(ParseI64(input).val, 0).dt) < SecondsYearLimit
         THEN Ok(timestamp_opt(ParseI64(input).val, 0).dt)
    ELSE Err(InvalidEpochTime(ParseI64(input).val))

iso_to_datetime(input) ==
    LET r == parse_from_rfc3339(input)
    IN  IF r.ok THEN Ok(r.dt) ELSE Err(DateFormatError(r.err))

epoch_to_datetime(input) ==
    LET p == ParseI64(input)
    IN  IF ~p.ok THEN Err(p.err)
        ELSE LET s == timestamp_opt(p.val, 0)
                 m == timestamp_millis_opt(p.val)
             IN  IF s.kind = "Single" /\ year(s.dt) < SecondsYearLimit THEN Ok(s.dt)
                 ELSE IF m.kind = "Single" THEN Ok(m.dt)
                 ELSE Err(InvalidEpochTime(p.val))

\* mutant: the failure of the numeric attempt propagated before the ISO 8601
\* result is looked at (epoch_to_datetime(trimmed)?)
get_datetime_needs_both(input) ==
    IF ~epoch_to_datetime(trim(input)).ok /\ iso_to_datetime(trim(input)).ok
    THEN Err(epoch_to_datetime(trim(input)).err)
    ELSE IF iso_to_datetime(trim(input)).ok THEN Ok(iso_to_datetime(trim(input)).dt)
    ELSE IF epoch_to_datetime(trim(input)).ok THEN Ok(epoch_to_datetime(trim(input)).dt)
    ELSE Err(MultipleErrors(iso_to_datetime(trim(input)).err,
                            epoch_to_datetime(trim(input)).err))

\* mutant: the input not trimmed
get_datetime_untrimmed(input) ==
    IF iso_to_datetime(input).ok THEN Ok(iso_to_datetime(input).dt)
    ELSE IF epoch_to_datetime(input).ok THEN Ok(epoch_to_datetime(input).dt)
    ELSE Err(MultipleErrors(iso_to_datetime(input).err, epoch_to_datetime(input).err))

\* mutant: the two failures combined in the other order
get_datetime_errors_swapped(input) ==
    IF iso_to_datetime(trim(input)).ok THEN Ok(iso_to_datetime(trim(input)).dt)
    ELSE IF epoch_to_datetime(trim(input)).ok THEN Ok(epoch_to_datetime(trim(input)).dt)
    ELSE Err(MultipleErrors(epoch_to_datetime(trim(input)).err,
                            iso_to_datetime(trim(input)).err))

get_datetime(input) ==
    LET trimmed == trim(input)
        iso     == iso_to_datetime(trimmed)
        epoch   == epoch_to_datetime(trimmed)
    IN  IF iso.ok THEN Ok(iso.dt)
        ELSE IF epoch.ok THEN Ok(epoch.dt)
        ELSE Err(MultipleErrors(iso.err, epoch.err))

\* mutant: the seconds row computed from the milliseconds by a truncating division
print_time_truncating(datetime) ==
    [iso_time           |-> to_rfc3339_millis_z(datetime),
     epoch_seconds      |-> MkBig(timestamp_millis(datetime).neg,
                                  MagDivMod(timestamp_millis(datetime).mag, 1000, <<>>, 0).q),
     epoch_milliseconds |-> timestamp_millis(datetime)]

\* the three rows print_time writes
print_time(datetime) ==
    [iso_time           |-> to_rfc3339_millis_z(datetime),
     epoch_seconds      |-> timestamp(datetime),
     epoch_milliseconds |-> timestamp_millis(datetime)]
-----------------------------------------------------------------------------
(* Inputs                                                                  *)

Cores ==
    { "2023-02-16T12:34:56.789Z", "2023-02-16T12:34:56Z", "2023-02-16t12:34:56.7z",
      "2023-02-16T12:34:56+01:00", "2024-02-29T23:59:59.123456789-08:30",
      "1969-12-31T23:59:58.500Z", "1969-12-31T23:59:59.999+00:00",
      "1970-01-01T00:00:00Z", "2016-12-31T23:59:60Z", "2016-12-31T23:59:60.250+05:00",
      "0000-01-01T00:00:00+01:00", "9999-12-31T23:59:59.999-01:00",
      "2023-02-16T12:34:56", "2023-02-30T00:00:00Z", "2023-02-16T24:00:00Z",
      "2023-02-16", "2023-02-16T12:34:56+24:00", "2023-02-16T12:34:56.Z",
      "2023-02-16T12:34:56Zx", "2023-13-01T00:00:00Z", "2023-02-16 12:34:56",
      "0", "-1", "+1", "007", "1676550896", "-1676550896", "+1676550896",
      "1676550896789", "-1676550896789", "-1500", "32503679999", "32503680000",
      "-62198755200", "8210298412799", "999999999999999", "-999999999999999",
      "8999999999999999", "-8999999999999999", "9223372036854775807",
      "-9223372036854775808", "9223372036854775808", "-9223372036854775809",
      "", "not-a-date", "abc123", "not-a-timestamp", "+", "-", "1.5", "12 34", "0x10" }

PadLeft == " \t \t \t \t"

PadRight == "\t  \t\t  \t"

\* the inputs with up to MaxPad characters of whitespace on either side
Lines ==
    { SubSeq(PadLeft, 1, i) \o c \o SubSeq(PadRight, 1, j) :
        c \in Cores, i \in 0..MaxPad, j \in 0..MaxPad }

-----------------------------------------------------------------------------
(* main: for line in input_iterator() { match get_datetime(..) {..} }      *)

NoResult == [ok |-> FALSE, err |-> [kind |-> "NoResult"]]

Init ==
    /\ mode \in {"arg", "stdin"}
    /\ pc = "next"
    /\ line = ""
    /\ result = NoResult
    /\ nread = 0
    /\ skipped = 0
    /\ exhausted = FALSE
    /\ log = <<>>
    /\ last = <<>>

\* [date_time].into_iter() yields the argument
ArgNext ==
    /\ pc = "next" /\ mode = "arg" /\ nread = 0
    /\ \E a \in Lines : line' = a
    /\ nread' = 1
    /\ result' = NoResult
    /\ last' = <<>>
    /\ pc' = "body"
    /\ UNCHANGED <<mode, skipped, exhausted, log>>

\* ... and then None
ArgExhausted ==
    /\ pc = "next" /\ mode = "arg" /\ nread = 1
    /\ exhausted' = TRUE
    /\ pc' = "done"
    /\ UNCHANGED <<mode, line, result, nread, skipped, log, last>>

\* stdin().lines() yields Some(Ok(line)), which flatten() passes on
StdinLine ==
    /\ pc = "next" /\ mode = "stdin" /\ nread < MaxLines
    /\ \E l \in Lines : line' = l
    /\ nread' = nread + 1
    /\ result' = NoResult
    /\ last' = <<>>
    /\ pc' = "body"
    /\ UNCHANGED <<mode, skipped, exhausted, log>>

\* stdin().lines() yields Some(Err(e)): flatten() drops the item and asks
\* the lines iterator for the next one
StdinReadError ==
    /\ pc = "next" /\ mode = "stdin" /\ skipped < MaxSkipped
    /\ skipped' = skipped + 1
    /\ UNCHANGED <<mode, pc, line, result, nread, exhausted, log, last>>

\* stdin().lines() yields None at end of input
StdinEof ==
    /\ pc = "next" /\ mode = "stdin"
    /\ exhausted' = TRUE
    /\ pc' = "done"
    /\ UNCHANGED <<mode, line, result, nread, skipped, log, last>>

\* Ok(datetime) => print_time(datetime)
PrintTime ==
    /\ pc = "body"
    /\ result' = get_datetime(line)
    /\ result'.ok
    /\ last' = print_time(result'.dt)
    /\ log' = Append(log, [n |-> nread, chan |-> "stdout"])
    /\ pc' = "next"
    /\ UNCHANGED <<mode, line, nread, skipped, exhausted>>

\* mutant: the loop left after the first failed resolution
ReportError_halts ==
    /\ pc = "body"
    /\ result' = get_datetime(line)
    /\ ~result'.ok
    /\ last' = result'.err
    /\ log' = Append(log, [n |-> nread, chan |-> "stderr"])
    /\ pc' = "done"
    /\ UNCHANGED <<mode, line, nread, skipped, exhausted>>

\* Err(e) => eprintln!("{}", e)
ReportError ==
    /\ pc = "body"
    /\ result' = get_datetime(line)
    /\ ~result'.ok
    /\ last' = result'.err
    /\ log' = Append(log, [n |-> nread, chan |-> "stderr"])
    /\ pc' = "next"
    /\ UNCHANGED <<mode, line, nread, skipped, exhausted>>

Next ==
    \/ ArgNext
    \/ ArgExhausted
    \/ StdinLine
    \/ StdinReadError
    \/ StdinEof
    \/ PrintTime
    \/ ReportError

Spec == Init /\ [][Next]_vars
-----------------------------------------------------------------------------
(* Vocabulary of the properties                                            *)

\* the loop body has run for the current item: result and last belong to line
Resolved == pc # "body" /\ nread > 0

\* the trimmed text is no ISO 8601 datetime and is a base-10 signed integer
IsNumeric(t) == ~parse_from_rfc3339(t).ok /\ ParseI64(t).ok

\* n read as seconds is representable and falls in a year below 3000
SecondsAccepted(n) ==
    /\ timestamp_opt(n, 0).kind = "Single"
    /\ CivilFromDays(timestamp_opt(n, 0).dt.days).year < 3000

\* n read as milliseconds is representable
MillisRepresentable(n) == timestamp_millis_opt(n).kind = "Single"

\* quotient of a division by a small k > 0 that drops the fractional part
BigDivTrunc(b, k) == MkBig(b.neg, MagDivMod(b.mag, k, <<>>, 0).q)

-----------------------------------------------------------------------------
\* C1: a numeric input whose reading as seconds is representable with a year
\* below 3000 (zero and negative numbers included) resolves to exactly n
\* seconds past the epoch, n * 1000 epoch milliseconds, also when n read as
\* milliseconds is representable too.
C1_SecondsInterpretation ==
    (Resolved /\ IsNumeric(trim(line)) /\ SecondsAccepted(ParseI64(trim(line)).val))
        => /\ result.ok
           /\ timestamp_millis(result.dt) = BigMul(ParseI64(trim(line)).val, 1000)
           /\ timestamp(result.dt) = ParseI64(trim(line)).val

C1_Witness ==
    /\ Resolved /\ IsNumeric(trim(line))
    /\ SecondsAccepted(ParseI64(trim(line)).val)
    /\ MillisRepresentable(ParseI64(trim(line)).val)
    /\ ParseI64(trim(line)).val.neg
    /\ result.ok
    /\ timestamp_millis(result.dt) = BigMul(ParseI64(trim(line)).val, 1000)

\* C2: a numeric input whose reading as seconds is not representable or falls
\* in year 3000 or later, and whose reading as milliseconds is representable,
\* resolves to exactly n milliseconds past the epoch.
C2_MillisInterpretation ==
    (/\ Resolved /\ IsNumeric(trim(line))
     /\ ~SecondsAccepted(ParseI64(trim(line)).val)
     /\ MillisRepresentable(ParseI64(trim(line)).val))
        => /\ result.ok
           /\ timestamp_millis(result.dt) = ParseI64(trim(line)).val

C2_Witness ==
    /\ Resolved /\ IsNumeric(trim(line))
    /\ timestamp_opt(ParseI64(trim(line)).val, 0).kind = "Single"
    /\ ~SecondsAccepted(ParseI64(trim(line)).val)
    /\ MillisRepresentable(ParseI64(trim(line)).val)
    /\ result.ok
    /\ timestamp_millis(result.dt) = ParseI64(trim(line)).val

\* C3: when the trimmed input is a full ISO 8601 datetime, get_datetime
\* succeeds with that datetime converted to UTC, whatever the numeric attempt
\* on the same text gives; the failure of the numeric attempt is not reported.
\* The conversion is anchored on the instants the repository's tests name.
C3_IsoPriority ==
    (Resolved /\ parse_from_rfc3339(trim(line)).ok)
        => /\ result = Ok(parse_from_rfc3339(trim(line)).dt)
           /\ trim(line) = "2023-02-16T12:34:56.789Z"
                => timestamp_millis(result.dt) = ParseI64("1676550896789").val
           /\ trim(line) = "2023-02-16T12:34:56Z"
                => timestamp_millis(result.dt) = ParseI64("1676550896000").val
           /\ trim(line) = "2023-02-16T12:34:56+01:00"
                => timestamp_millis(result.dt) = ParseI64("1676547296000").val

C3_Witness ==
    /\ Resolved
    /\ line # trim(line)
    /\ trim(line) = "2023-02-16T12:34:56+01:00"
    /\ ~epoch_to_datetime(trim(line)).ok
    /\ result.ok
    /\ timestamp_millis(result.dt) = ParseI64("1676547296000").val

\* C4: whitespace tolerance: padding an input with any amount of leading and
\* trailing whitespace leaves the outcome of get_datetime unchanged, the same
\* instant on success and a failure exactly when the unpadded input fails.
C4_WhitespaceTolerance ==
    Resolved =>
        \A i \in 0..MaxPad, j \in 0..MaxPad :
            get_datetime(SubSeq(PadRight, 1, i) \o line \o SubSeq(PadLeft, 1, j)) = result

C4_Witness ==
    /\ Resolved
    /\ trim(line) = "1676550896"
    /\ Len(line) = Len(trim(line)) + 2 * MaxPad
    /\ result.ok
    /\ get_datetime(trim(line)) = result

\* C5: when both attempts fail get_datetime returns MultipleErrors carrying the
\* ISO 8601 failure first and the numeric failure second; it never returns
\* another kind of error; the empty string, whitespace-only strings,
\* "not-a-date" and "abc123" give such a combined error.
C5_CombinedError ==
    Resolved =>
        /\ ~result.ok =>
              /\ result.err.kind = "MultipleErrors"
              /\ result.err.first.kind = "DateFormatError"
              /\ result.err.second.kind \in {"NumberFormatError", "InvalidEpochTime"}
        /\ (~iso_to_datetime(trim(line)).ok /\ ~epoch_to_datetime(trim(line)).ok) =>
              result = Err(MultipleErrors(iso_to_datetime(trim(line)).err,
                                          epoch_to_datetime(trim(line)).err))
        /\ trim(line) \in {"", "not-a-date", "abc123"} =>
              ~result.ok /\ result.err.kind = "MultipleErrors"

C5_Witness ==
    /\ Resolved
    /\ line # "" /\ trim(line) = ""
    /\ ~result.ok
    /\ result.err = MultipleErrors(DateFormatError("TooShort"), NumberFormatError("Empty"))

C7_RoundTrip ==
    (Resolved /\ parse_from_rfc3339(trim(line)).ok)
        => /\ result.ok
           /\ get_datetime(last.iso_time).ok
           /\ timestamp_millis(get_datetime(last.iso_time).dt) = last.epoch_milliseconds

\* C8: one report per input, in input order: a table on standard output when
\* the input resolves, otherwise one error line on standard error; after a
\* failed resolution the loop goes on, and it ends only when the input source
\* is exhausted.
C8_OneOutcomePerInput ==
    /\ Len(log) = (IF pc = "body" THEN nread - 1 ELSE nread)
    /\ \A i \in 1..Len(log) : log[i].n = i /\ log[i].chan \in {"stdout", "stderr"}
    /\ Resolved =>
          /\ log[nread].chan = (IF get_datetime(line).ok THEN "stdout" ELSE "stderr")
          /\ result = get_datetime(line)
          /\ last = (IF result.ok THEN print_time(result.dt) ELSE result.err)
    /\ pc = "done" => exhausted
    /\ (pc = "done" /\ mode = "arg") => nread = 1

C8_Witness ==
    /\ pc = "next"
    /\ Len(log) = 2
    /\ log[1].chan = "stderr"
    /\ log[2].chan = "stdout"
    /\ result.ok

\* C9 as stated: the reported epoch seconds are the epoch milliseconds divided
\* by 1000 with the fractional part truncated, for every resolved instant.
C9_SecondsTruncated ==
    (Resolved /\ result.ok)
        => /\ last.epoch_seconds = BigDivTrunc(last.epoch_milliseconds, 1000)
           /\ last.epoch_milliseconds = timestamp_millis(result.dt)

\* C9 amended: the reported epoch seconds are the floor of the epoch
\* milliseconds divided by 1000 (rounded toward negative infinity), one less
\* than that floor inside a leap second; the reported epoch milliseconds are
\* the reported seconds times 1000 plus the sub-second milliseconds.
C9_SecondsFloored ==
    (Resolved /\ result.ok)
        => /\ BigDivModFloor(last.epoch_milliseconds, 1000).q =
                 (IF result.dt.nanos >= 1000000000
                  THEN BigAddSmall(last.epoch_seconds, 1)
                  ELSE last.epoch_seconds)
           /\ BigDivModFloor(last.epoch_milliseconds, 1000).r =
                 (result.dt.nanos % 1000000000) \div 1000000
           /\ IsNumeric(trim(line)) /\ ~SecondsAccepted(ParseI64(trim(line)).val)
                 => last.epoch_milliseconds = ParseI64(trim(line)).val

C9_Witness ==
    /\ Resolved /\ result.ok
    /\ last.epoch_milliseconds.neg
    /\ BigDivModFloor(last.epoch_milliseconds, 1000).r # 0
    /\ last.epoch_seconds # BigDivTrunc(last.epoch_milliseconds, 1000)
    /\ last.epoch_seconds = BigDivModFloor(last.epoch_milliseconds, 1000).q

\* C10: once a read of a line of standard input has returned an error the
\* process terminates: the failed read is not skipped, no later line is
\* yielded and nothing more is reported.
C10_StopsOnReadError == [][skipped > 0 => (nread' = nread /\ log' = log)]_vars

=============================================================================
